---- MODULE Spec2Model ----
(***************************************************************************)
(* Model of the earthquake dashboard: the Index page (src/pages/Index.tsx, *)
(* lines 1-127), the EarthquakeMap component (same file, lines 129-410)    *)
(* and the EarthquakeStats component (src/components/EarthquakeStats.tsx). *)
(*                                                                         *)
(* Units.  A magnitude is an integer number of 1/MagRes magnitude units,   *)
(* so the code's thresholds 1, 2, ... 6 are 1*MagRes, ... 6*MagRes.        *)
(* Latitudes and longitudes are whole degrees.  A screen coordinate is an  *)
(* exact fraction [n, d] (d > 0), computed by the code's own expression.   *)
(*                                                                         *)
(* State setters.  A setter called by a fetch that settles after teardown  *)
(* is modelled as writing its state cell, as the code calls it; nothing is *)
(* rendered from the cells of a view that is gone.  The setters one        *)
(* continuation calls are applied together, followed by one render.        *)
(***************************************************************************)
EXTENDS Integers, Sequences, FiniteSets, TLC

VARIABLES
    phase,           \* "constructed" | "mounted" | "unmounted": life of the page
    earthquakes,     \* EarthquakeMap: useState<EarthquakeData[]>([])
    loading,         \* EarthquakeMap: useState(true)
    error,           \* EarthquakeMap: useState<string | null>(null)
    interval,        \* EarthquakeMap: TRUE while the setInterval timer is armed
    mapFetches,      \* EarthquakeMap: calls of fetchEarthquakes in flight, in start
                     \*   order; each is the await it is suspended at
    idxEarthquakes,  \* Index: useState<EarthquakeData[]>([])
    idxLoading,      \* Index: useState(true)
    idxPc,           \* Index: position of its single call of fetchEarthquakes
    idxConsoleError, \* Index: console.error has been called (line 45)
    statsPanel,      \* Index: what the statistics column last rendered
    lastBody,        \* history: JSON body of the last fetch of the map that succeeded
    overtaken,       \* history: some fetch of the map completed before an older one
    call,            \* input of a direct call of a derived-view function
    result           \* what that call returned

viewVars == <<phase, earthquakes, loading, error, interval, mapFetches,
              idxEarthquakes, idxLoading, idxPc, idxConsoleError, statsPanel,
              lastBody, overtaken>>
callVars == <<call, result>>
vars == <<viewVars, callVars>>

----------------------------------------------------------------------------
\* Bounds of the model.

\* Steps per magnitude unit.
MagRes == 2
\* Fetches of the map that may be in flight together.
MaxInFlight == 2
\* Longest event collection handed to the statistics functions directly.
MaxLen == 3
\* Grid steps (of 5 degrees) by which a coordinate may lie outside its valid range.
CoordOver == 2

----------------------------------------------------------------------------
\* Data.

\* properties.mag, in [-2, 10] magnitude units.
Magnitudes == (-2 * MagRes)..(10 * MagRes)

\* One magnitude on each threshold, and one below the first.
BandMagnitudes == {k * MagRes : k \in 0..6}

\* Coordinates on a grid of 5 degrees, to CoordOver steps past the valid range.
Latitudes == {5 * k : k \in (-18 - CoordOver)..(18 + CoordOver)}
Longitudes == {5 * k : k \in (-36 - CoordOver)..(36 + CoordOver)}

\* EarthquakeData, the fields the modelled code reads.
EarthquakeData(id, mag, time) == [id |-> id, mag |-> mag, time |-> time]

\* properties.time of the events handed to the statistics functions directly.
EventTimes == {1, 2}

\* Exact fractions.
Rat(n, d) == [n |-> n, d |-> d]
RatLess(a, b) == a.n * b.d < b.n * a.d
RatEq(a, b) == a.n * b.d = b.n * a.d

\* Math.max and Math.min on fractions.
MathMax(a, b) == IF RatLess(a, b) THEN b ELSE a
MathMin(a, b) == IF RatLess(b, a) THEN b ELSE a

----------------------------------------------------------------------------
\* EarthquakeMap: pure helpers.

getMagnitudeLabelSixBands(magnitude) ==
    IF magnitude < 1 * MagRes THEN "Micro"
    ELSE IF magnitude < 2 * MagRes THEN "Minor"
    ELSE IF magnitude < 3 * MagRes THEN "Light"
    ELSE IF magnitude < 4 * MagRes THEN "Moderate"
    ELSE IF magnitude < 5 * MagRes THEN "Strong"
    ELSE "Great"

getMagnitudeLabel(magnitude) ==
    IF magnitude < 1 * MagRes THEN "Micro"
    ELSE IF magnitude < 2 * MagRes THEN "Minor"
    ELSE IF magnitude < 3 * MagRes THEN "Light"
    ELSE IF magnitude < 4 * MagRes THEN "Moderate"
    ELSE IF magnitude < 5 * MagRes THEN "Strong"
    ELSE IF magnitude < 6 * MagRes THEN "Major"
    ELSE "Great"

\* A colour token as the style attribute receives it: `hsl(var(--${color}))`.
CssColor(color) == "hsl(var(--" \o color \o "))"

\* Colour of the marker of an event on the map.
getMagnitudeColor(magnitude) ==
    IF magnitude < 1 * MagRes THEN "hsl(var(--magnitude-minor))"
    ELSE IF magnitude < 2 * MagRes THEN "hsl(var(--magnitude-light))"
    ELSE IF magnitude < 3 * MagRes THEN "hsl(var(--magnitude-moderate))"
    ELSE IF magnitude < 4 * MagRes THEN "hsl(var(--magnitude-strong))"
    ELSE IF magnitude < 5 * MagRes THEN "hsl(var(--magnitude-major))"
    ELSE "hsl(var(--magnitude-great))"

\* The legend the map draws over itself: range, colour, label.
MapLegend ==
    << [range |-> "6.0+", color |-> "hsl(var(--magnitude-great))", label |-> "Great"],
       [range |-> "5.0-5.9", color |-> "hsl(var(--magnitude-major))", label |-> "Major"],
       [range |-> "4.0-4.9", color |-> "hsl(var(--magnitude-strong))", label |-> "Strong"],
       [range |-> "3.0-3.9", color |-> "hsl(var(--magnitude-moderate))", label |-> "Moderate"],
       [range |-> "2.0-2.9", color |-> "hsl(var(--magnitude-light))", label |-> "Light"],
       [range |-> "<2.0", color |-> "hsl(var(--magnitude-minor))", label |-> "Minor"] >>

latLngToScreenNoClamp(lat, lng) ==
    [x |-> Rat((lng + 180) * 100, 360), y |-> Rat((90 - lat) * 100, 180)]

latLngToScreen(lat, lng) ==
    LET x == Rat((lng + 180) * 100, 360)
        y == Rat((90 - lat) * 100, 180)
    IN  [x |-> MathMax(Rat(0, 1), MathMin(Rat(100, 1), x)),
         y |-> MathMax(Rat(0, 1), MathMin(Rat(100, 1), y))]

----------------------------------------------------------------------------
\* EarthquakeStats.

ZeroStats ==
    [micro |-> 0, minor |-> 0, light |-> 0, moderate |-> 0,
     strong |-> 0, major |-> 0, great |-> 0]

BucketInclusive(mag) ==
    IF mag <= 1 * MagRes THEN "micro"
    ELSE IF mag <= 2 * MagRes THEN "minor"
    ELSE IF mag <= 3 * MagRes THEN "light"
    ELSE IF mag <= 4 * MagRes THEN "moderate"
    ELSE IF mag <= 5 * MagRes THEN "strong"
    ELSE IF mag <= 6 * MagRes THEN "major"
    ELSE "great"

\* The counter the forEach body increments for one event.
Bucket(mag) ==
    IF mag < 1 * MagRes THEN "micro"
    ELSE IF mag < 2 * MagRes THEN "minor"
    ELSE IF mag < 3 * MagRes THEN "light"
    ELSE IF mag < 4 * MagRes THEN "moderate"
    ELSE IF mag < 5 * MagRes THEN "strong"
    ELSE IF mag < 6 * MagRes THEN "major"
    ELSE "great"

\* The rows of the Magnitude Distribution card: label, the counter of stats
\* shown in the row, colour token.
DistributionLegend ==
    << [label |-> "Great (6.0+)", count |-> "great", color |-> "magnitude-great"],
       [label |-> "Major (5.0-5.9)", count |-> "major", color |-> "magnitude-major"],
       [label |-> "Strong (4.0-4.9)", count |-> "strong", color |-> "magnitude-strong"],
       [label |-> "Moderate (3.0-3.9)", count |-> "moderate", color |-> "magnitude-moderate"],
       [label |-> "Light (2.0-2.9)", count |-> "light", color |-> "magnitude-light"],
       [label |-> "Minor (1.0-1.9)", count |-> "minor", color |-> "magnitude-minor"],
       [label |-> "Micro (<1.0)", count |-> "micro", color |-> "magnitude-minor"] >>

\* backgroundColor of the dot in the row that shows the counter of a band.
DistributionColor(band) ==
    LET row == CHOOSE r \in DOMAIN DistributionLegend :
                   DistributionLegend[r].count = band
    IN  CssColor(DistributionLegend[row].color)

RECURSIVE ForEachStats(_, _, _)
ForEachStats(eqs, i, stats) ==
    IF i > Len(eqs) THEN stats
    ELSE ForEachStats(eqs, i + 1,
                      [stats EXCEPT ![Bucket(eqs[i].mag)] = @ + 1])

getStatsByMagnitude(eqs) == ForEachStats(eqs, 1, ZeroStats)

\* Math.max(...mags): -Infinity for no arguments.
RECURSIVE MaxFrom(_, _, _)
MaxFrom(eqs, i, best) ==
    IF i > Len(eqs) THEN best
    ELSE MaxFrom(eqs, i + 1, IF eqs[i].mag > best THEN eqs[i].mag ELSE best)

getMaxMagnitude(eqs) ==
    IF Len(eqs) = 0 THEN [finite |-> FALSE]
    ELSE [finite |-> TRUE, value |-> MaxFrom(eqs, 2, eqs[1].mag)]

RECURSIVE SumFrom(_, _, _)
SumFrom(eqs, i, sum) ==
    IF i > Len(eqs) THEN sum ELSE SumFrom(eqs, i + 1, sum + eqs[i].mag)

\* total / earthquakes.length, kept as the fraction; 0/0 is NaN.
getAverageMagnitude(eqs) == Rat(SumFrom(eqs, 1, 0), Len(eqs))

RECURSIVE ReduceLatestLast(_, _, _)
ReduceLatestLast(eqs, i, latest) ==
    IF i > Len(eqs) THEN latest
    ELSE ReduceLatestLast(eqs, i + 1,
                          IF eqs[i].time >= latest.time THEN eqs[i] ELSE latest)

\* reduce without an initial value: latest starts as the first element.
RECURSIVE ReduceLatest(_, _, _)
ReduceLatest(eqs, i, latest) ==
    IF i > Len(eqs) THEN latest
    ELSE ReduceLatest(eqs, i + 1,
                      IF eqs[i].time > latest.time THEN eqs[i] ELSE latest)

\* reduce of an empty array without an initial value throws a TypeError.
getMostRecentEarthquake(eqs) ==
    IF Len(eqs) = 0 THEN [threw |-> TRUE]
    ELSE [threw |-> FALSE, value |-> ReduceLatest(eqs, 2, eqs[1])]

\* The body of the component up to its return: the four derived values, or the
\* exception that ends the render.
EarthquakeStats(eqs) ==
    LET stats == getStatsByMagnitude(eqs)
        maxMagnitude == getMaxMagnitude(eqs)
        avgMagnitude == getAverageMagnitude(eqs)
        mostRecent == getMostRecentEarthquake(eqs)
    IN  IF mostRecent.threw
        THEN [threw |-> TRUE]
        ELSE [threw |-> FALSE, total |-> Len(eqs), stats |-> stats,
              maxMagnitude |-> maxMagnitude.value, avgMagnitude |-> avgMagnitude,
              mostRecent |-> mostRecent.value]

----------------------------------------------------------------------------
\* The feed: what the two awaits of fetchEarthquakes can settle with.

\* await fetch(url): rejected (transport failure), or a response whose ok is
\* false or true.
FetchOutcomes == {"reject", "notOk", "ok"}

QuakeA == EarthquakeData(1, 2 * MagRes, 1)
QuakeB == EarthquakeData(2, 5 * MagRes, 2)

\* The features arrays the feed serves.
FeedCollections == {<<>>, <<QuakeA>>, <<QuakeB>>, <<QuakeA, QuakeB>>}

JsonNull == [type |-> "null"]
JsonEmptyObject == [type |-> "object"]
JsonFeed(features) == [type |-> "object", features |-> features]

\* Values response.json() can resolve with.
JsonBodies == {JsonNull, JsonEmptyObject} \cup {JsonFeed(c) : c \in FeedCollections}

\* await response.json(): rejected (the body is not JSON), or a parsed value.
InvalidJson == [type |-> "SyntaxError"]
JsonOutcomes == {InvalidJson} \cup JsonBodies

NoBody == [type |-> "none"]

Null == "null"
ErrorMessage == "Failed to load earthquake data. Please try again later."

\* data.features || []   (reading a property of null throws: see the callers)
Features(data) == IF "features" \in DOMAIN data THEN data.features ELSE <<>>

RemoveAt(s, i) == SubSeq(s, 1, i - 1) \o SubSeq(s, i + 1, Len(s))

----------------------------------------------------------------------------
\* Index: render of the statistics column.

NotRendered == [view |-> "none"]
LoadingCard == [view |-> "loading"]

IndexRenderUnguarded(eqs, ld) ==
    IF ~ld
    THEN [view |-> "stats", summary |-> EarthquakeStats(eqs)]
    ELSE LoadingCard

\* !loading && earthquakes.length > 0 ? <EarthquakeStats .../> : <Card>...
IndexRender(eqs, ld) ==
    IF ~ld /\ Len(eqs) > 0
    THEN [view |-> "stats", summary |-> EarthquakeStats(eqs)]
    ELSE LoadingCard

\* The column as rendered after a state change: nothing once the page is gone.
Rendered(ph, eqs, ld) == IF ph = "mounted" THEN IndexRender(eqs, ld) ELSE NotRendered

----------------------------------------------------------------------------
\* Initial state: both components constructed, no effect run yet.

ViewInit ==
    /\ phase = "constructed"
    /\ earthquakes = <<>>
    /\ loading = TRUE
    /\ error = Null
    /\ interval = FALSE
    /\ mapFetches = <<>>
    /\ idxEarthquakes = <<>>
    /\ idxLoading = TRUE
    /\ idxPc = "idle"
    /\ idxConsoleError = FALSE
    /\ statsPanel = NotRendered
    /\ lastBody = NoBody
    /\ overtaken = FALSE

NoCall ==
    /\ call = [fn |-> "none"]
    /\ result = [done |-> FALSE]

Init == ViewInit /\ NoCall

----------------------------------------------------------------------------
\* EarthquakeMap: fetchEarthquakes.

\* Start of fetchEarthquakes up to its first await.
MapStartFetch ==
    /\ loading' = TRUE
    /\ mapFetches' = Append(mapFetches, "fetch")

MapCatchClears(i) ==
    /\ earthquakes' = <<>>
    /\ error' = ErrorMessage
    /\ loading' = FALSE
    /\ mapFetches' = RemoveAt(mapFetches, i)
    /\ overtaken' = (overtaken \/ i > 1)
    /\ UNCHANGED lastBody

\* catch and finally of the fetch at position i.
MapCatch(i) ==
    /\ error' = ErrorMessage
    /\ loading' = FALSE
    /\ mapFetches' = RemoveAt(mapFetches, i)
    /\ overtaken' = (overtaken \/ i > 1)
    /\ UNCHANGED <<earthquakes, lastBody>>

MapSucceedKeepsError(i, data) ==
    /\ earthquakes' = Features(data)
    /\ loading' = FALSE
    /\ mapFetches' = RemoveAt(mapFetches, i)
    /\ lastBody' = data
    /\ overtaken' = (overtaken \/ i > 1)
    /\ UNCHANGED error

MapSucceedMerges(i, data) ==
    /\ earthquakes' = earthquakes \o Features(data)
    /\ error' = Null
    /\ loading' = FALSE
    /\ mapFetches' = RemoveAt(mapFetches, i)
    /\ lastBody' = data
    /\ overtaken' = (overtaken \/ i > 1)

\* setEarthquakes(data.features || []); setError(null); finally.
MapSucceed(i, data) ==
    /\ earthquakes' = Features(data)
    /\ error' = Null
    /\ loading' = FALSE
    /\ mapFetches' = RemoveAt(mapFetches, i)
    /\ lastBody' = data
    /\ overtaken' = (overtaken \/ i > 1)

\* await fetch(...) of the fetch at position i settles with outcome r.
MapFetchSettles(i, r) ==
    /\ i \in DOMAIN mapFetches
    /\ mapFetches[i] = "fetch"
    /\ IF r = "ok"
       THEN /\ mapFetches' = [mapFetches EXCEPT ![i] = "json"]
            /\ UNCHANGED <<earthquakes, loading, error, lastBody, overtaken>>
       ELSE MapCatch(i)
    /\ UNCHANGED <<phase, interval, idxEarthquakes, idxLoading, idxPc,
                   idxConsoleError, statsPanel, callVars>>

\* await response.json() of the fetch at position i settles with outcome r.
MapJsonSettles(i, r) ==
    /\ i \in DOMAIN mapFetches
    /\ mapFetches[i] = "json"
    /\ IF r = InvalidJson \/ r = JsonNull
       THEN MapCatch(i)
       ELSE MapSucceed(i, r)
    /\ UNCHANGED <<phase, interval, idxEarthquakes, idxLoading, idxPc,
                   idxConsoleError, statsPanel, callVars>>

----------------------------------------------------------------------------
\* Index: fetchEarthquakes.

IdxCatch ==
    /\ idxConsoleError' = TRUE
    /\ idxLoading' = FALSE
    /\ idxPc' = "done"
    /\ statsPanel' = Rendered(phase, idxEarthquakes, FALSE)
    /\ UNCHANGED idxEarthquakes

IdxSucceed(data) ==
    /\ idxEarthquakes' = Features(data)
    /\ idxLoading' = FALSE
    /\ idxPc' = "done"
    /\ statsPanel' = Rendered(phase, Features(data), FALSE)
    /\ UNCHANGED idxConsoleError

IdxFetchSettles(r) ==
    /\ idxPc = "fetch"
    /\ IF r = "ok"
       THEN /\ idxPc' = "json"
            /\ UNCHANGED <<idxEarthquakes, idxLoading, idxConsoleError, statsPanel>>
       ELSE IdxCatch
    /\ UNCHANGED <<phase, earthquakes, loading, error, interval, mapFetches,
                   lastBody, overtaken, callVars>>

IdxJsonSettles(r) ==
    /\ idxPc = "json"
    /\ IF r = InvalidJson \/ r = JsonNull
       THEN IdxCatch
       ELSE IdxSucceed(r)
    /\ UNCHANGED <<phase, earthquakes, loading, error, interval, mapFetches,
                   lastBody, overtaken, callVars>>

----------------------------------------------------------------------------
\* Life of the page.

\* First commit: the effect of EarthquakeMap (fetch, then setInterval), then the
\* effect of Index (fetch).
Mount ==
    /\ phase = "constructed"
    /\ phase' = "mounted"
    /\ MapStartFetch
    /\ interval' = TRUE
    /\ idxLoading' = TRUE
    /\ idxPc' = "fetch"
    /\ statsPanel' = Rendered("mounted", idxEarthquakes, TRUE)
    /\ UNCHANGED <<earthquakes, error, idxEarthquakes, idxConsoleError,
                   lastBody, overtaken, callVars>>

\* The interval fires: fetchEarthquakes runs again.
Tick ==
    /\ interval
    /\ Len(mapFetches) < MaxInFlight
    /\ MapStartFetch
    /\ UNCHANGED <<phase, earthquakes, error, interval, idxEarthquakes, idxLoading,
                   idxPc, idxConsoleError, statsPanel, lastBody, overtaken, callVars>>

UnmountKeepsTimer ==
    /\ phase = "mounted"
    /\ phase' = "unmounted"
    /\ statsPanel' = NotRendered
    /\ UNCHANGED <<earthquakes, loading, error, interval, mapFetches, idxEarthquakes,
                   idxLoading, idxPc, idxConsoleError, lastBody, overtaken, callVars>>

\* Teardown: the cleanup of the effect of EarthquakeMap, clearInterval(interval).
Unmount ==
    /\ phase = "mounted"
    /\ phase' = "unmounted"
    /\ interval' = FALSE
    /\ statsPanel' = NotRendered
    /\ UNCHANGED <<earthquakes, loading, error, mapFetches, idxEarthquakes,
                   idxLoading, idxPc, idxConsoleError, lastBody, overtaken, callVars>>

Next ==
    \/ Mount
    \/ Tick
    \/ Unmount
    \/ \E i \in 1..MaxInFlight, r \in FetchOutcomes : MapFetchSettles(i, r)
    \/ \E i \in 1..MaxInFlight, r \in JsonOutcomes : MapJsonSettles(i, r)
    \/ \E r \in FetchOutcomes : IdxFetchSettles(r)
    \/ \E r \in JsonOutcomes : IdxJsonSettles(r)

Spec == Init /\ [][Next]_vars

\* The timer keeps firing while armed, and every request is answered.
Fairness ==
    /\ WF_vars(Tick)
    /\ WF_vars(\E i \in 1..MaxInFlight, r \in FetchOutcomes : MapFetchSettles(i, r))
    /\ WF_vars(\E i \in 1..MaxInFlight, r \in JsonOutcomes : MapJsonSettles(i, r))
    /\ WF_vars(\E r \in FetchOutcomes : IdxFetchSettles(r))
    /\ WF_vars(\E r \in JsonOutcomes : IdxJsonSettles(r))

FairSpec == Init /\ [][Next]_vars /\ Fairness

----------------------------------------------------------------------------
\* Direct calls of the derived-view functions on bounded inputs.

CallInputs ==
    {[fn |-> "magnitude", magnitude |-> m] : m \in Magnitudes}
    \cup {[fn |-> "latLng", lat |-> lat, lng |-> lng] :
             lat \in Latitudes, lng \in Longitudes}
    \cup {[fn |-> "stats", earthquakes |-> <<>>]}

PureInit ==
    /\ ViewInit
    /\ call \in CallInputs
    /\ result = [done |-> FALSE]

\* The label and the marker colour of the map, and the buckets of the panel,
\* for one event of that magnitude.
CallMagnitude ==
    /\ call.fn = "magnitude"
    /\ ~result.done
    /\ result' = [done |-> TRUE,
                  label |-> getMagnitudeLabel(call.magnitude),
                  color |-> getMagnitudeColor(call.magnitude),
                  stats |-> getStatsByMagnitude(
                                <<EarthquakeData(1, call.magnitude, 1)>>)]
    /\ UNCHANGED <<viewVars, call>>

CallLatLngToScreen ==
    /\ call.fn = "latLng"
    /\ ~result.done
    /\ result' = [done |-> TRUE, position |-> latLngToScreen(call.lat, call.lng)]
    /\ UNCHANGED <<viewVars, call>>

CallStats ==
    /\ call.fn = "stats"
    /\ ~result.done
    /\ result' = [done |-> TRUE,
                  stats |-> getStatsByMagnitude(call.earthquakes),
                  maxMagnitude |-> getMaxMagnitude(call.earthquakes),
                  avgMagnitude |-> getAverageMagnitude(call.earthquakes),
                  mostRecent |-> getMostRecentEarthquake(call.earthquakes)]
    /\ UNCHANGED <<viewVars, call>>

\* The collection to summarise gets one more event; its id is its position, so
\* ids are unique within the collection.
NextEvent ==
    /\ call.fn = "stats"
    /\ ~result.done
    /\ Len(call.earthquakes) < MaxLen
    /\ \E m \in BandMagnitudes, t \in EventTimes :
           call' = [call EXCEPT !.earthquakes =
                        Append(@, EarthquakeData(Len(@) + 1, m, t))]
    /\ UNCHANGED <<viewVars, result>>

PureNext ==
    \/ NextEvent
    \/ CallMagnitude
    \/ CallLatLngToScreen
    \/ CallStats

PureSpec == PureInit /\ [][PureNext]_vars

----------------------------------------------------------------------------
\* Properties of the refresh cycle.

\* A step in which a fetch of the map fails: its request is rejected, its
\* response is not ok, or its body is not JSON.
MapFetchFails(i) ==
    \/ MapFetchSettles(i, "reject")
    \/ MapFetchSettles(i, "notOk")
    \/ MapJsonSettles(i, InvalidJson)

IdxFetchFails ==
    \/ IdxFetchSettles("reject")
    \/ IdxFetchSettles("notOk")
    \/ IdxJsonSettles(InvalidJson)

\* C1: a fetch that fails (transport failure, non-OK status, body that is not
\* JSON) leaves the stored event collection exactly as it was, in the map and in
\* the page, whatever fetches came before.
C1_FailedFetchKeepsCollection ==
    [][/\ \A i \in 1..MaxInFlight :
              MapFetchFails(i) => earthquakes' = earthquakes
       /\ IdxFetchFails => idxEarthquakes' = idxEarthquakes]_vars

\* A fetch failed after an earlier one had stored events, and they are still there.
C1_Witness ==
    /\ error = ErrorMessage
    /\ lastBody # NoBody
    /\ earthquakes # <<>>
    /\ earthquakes = lastBody.features

\* JSON bodies without a features field.
BodiesWithoutFeatures == {b \in JsonBodies : "features" \notin DOMAIN b}

\* A step in which a fetch of the map completes as a success with no events.
CompletesEmpty ==
    /\ earthquakes' = <<>>
    /\ error' = Null
    /\ loading' = FALSE

\* C2 as stated: an ok response whose JSON body has no features field completes
\* as a success: empty collection, error null, loading false.
C2_Original ==
    [][\A i \in 1..MaxInFlight, d \in BodiesWithoutFeatures :
           MapJsonSettles(i, d) => CompletesEmpty]_vars

\* C2, amended: an ok response whose JSON body is not null and has no features
\* field completes as a success: empty collection, error null, loading false.
C2_NonNullBodyWithoutFeatures ==
    [][\A i \in 1..MaxInFlight, d \in BodiesWithoutFeatures \ {JsonNull} :
           MapJsonSettles(i, d) => CompletesEmpty]_vars

\* The body {} was the last to be stored, and the view is in the success state.
C2_Witness ==
    /\ lastBody = JsonEmptyObject
    /\ earthquakes = <<>>
    /\ error = Null
    /\ ~loading

\* A step that starts a fetch of the map, of the page.
MapFetchStarts == mapFetches' = Append(mapFetches, "fetch")
IdxFetchStarts == idxPc # "fetch" /\ idxPc' = "fetch"

\* C3: a fetch starts at mount, where the timer is armed, and on every tick of
\* the timer; teardown cancels the timer and no step after it starts a fetch.
C3_NoFetchAfterTeardown ==
    [][/\ (phase = "constructed" /\ phase' = "mounted")
              => (MapFetchStarts /\ interval')
       /\ Tick => MapFetchStarts
       /\ phase' = "unmounted" => ~interval'
       /\ phase = "unmounted" => (~MapFetchStarts /\ ~IdxFetchStarts)]_vars

\* The view was torn down with room for another fetch, and the timer is off.
C3_Witness ==
    /\ phase = "unmounted"
    /\ ~interval
    /\ Len(mapFetches) < MaxInFlight
    /\ lastBody # NoBody

\* The collection a successful fetch with body b yields.
CollectionOf(b) ==
    IF b = NoBody THEN <<>>
    ELSE IF "features" \in DOMAIN b THEN b.features
    ELSE <<>>

\* C4: the stored collection of the map is, in full, the result of the fetch
\* that most recently completed with success (empty before any has), however the
\* fetches overlap and in whatever order they complete.
C4_CollectionIsLastSuccess == earthquakes = CollectionOf(lastBody)

\* Fetches overlapped and one completed before an older one; a non-empty result
\* is stored while another fetch is still in flight.
C4_Witness ==
    /\ overtaken
    /\ Len(mapFetches) > 0
    /\ lastBody = JsonFeed(<<QuakeA, QuakeB>>)
    /\ earthquakes = <<QuakeA, QuakeB>>

----------------------------------------------------------------------------
\* Recovery.

\* The map shows its error notice; the page has logged a failed fetch and
\* stopped loading.
MapFailed == phase = "mounted" /\ error = ErrorMessage /\ ~loading
IdxFailed == phase = "mounted" /\ idxConsoleError /\ ~idxLoading

\* After a failure of the map, unless the view is torn down, a fetch is started
\* again (starting one sets loading).
MapRefetches == MapFailed ~> (phase # "mounted" \/ loading)

\* The same for the page, whose collection feeds the statistics panel.
IdxRefetches == IdxFailed ~> (phase # "mounted" \/ idxLoading)

\* A fetch that succeeds leaves the failed state and stores its result.
SuccessLeavesFailedState ==
    [][/\ \A i \in 1..MaxInFlight, d \in JsonBodies \ {JsonNull} :
              MapJsonSettles(i, d)
                  => (error' = Null /\ ~loading' /\ earthquakes' = CollectionOf(d))
       /\ \A d \in JsonBodies \ {JsonNull} :
              IdxJsonSettles(d)
                  => (~idxLoading' /\ idxEarthquakes' = CollectionOf(d))]_vars

\* C5: while the view stays active, every failed fetch is followed by a later
\* scheduled fetch, for the map and for the statistics panel, and a fetch that
\* succeeds clears the failed state and stores its result.
C5_FailureRecoveredByRefresh ==
    /\ MapRefetches
    /\ IdxRefetches
    /\ SuccessLeavesFailedState

\* C10: whenever the page renders the statistics component, it hands it a
\* non-empty collection, and the summary (max, mean, most recent) is computed
\* without the reduce of an empty array throwing.
C10_StatsOnlyOnNonEmpty ==
    statsPanel.view = "stats"
        => (/\ ~statsPanel.summary.threw
            /\ statsPanel.summary.total > 0
            /\ statsPanel.summary.total = Len(idxEarthquakes))

\* The statistics are on screen.
C10_Witness ==
    /\ statsPanel.view = "stats"
    /\ idxEarthquakes = <<QuakeA, QuakeB>>
    /\ statsPanel.summary.mostRecent = QuakeB

\* The fetch of the page succeeded with no events: the placeholder stays.
C10_EmptySuccessShowsPlaceholder ==
    (phase = "mounted" /\ idxPc = "done" /\ idxEarthquakes = <<>>)
        => statsPanel = LoadingCard

----------------------------------------------------------------------------
\* Properties of the derived-view functions.

\* The seven bands, lowest first; band k+1 starts at magnitude k.
BandNames == <<"micro", "minor", "light", "moderate", "strong", "major", "great">>

\* The band of a magnitude: one band up for every threshold 1..6 it has reached.
BandOf(m) == BandNames[1 + Cardinality({k \in 1..6 : m >= k * MagRes})]

\* The band a label of the map names.
BandOfLabel ==
    [Micro |-> "micro", Minor |-> "minor", Light |-> "light",
     Moderate |-> "moderate", Strong |-> "strong", Major |-> "major",
     Great |-> "great"]

SumOfCounts(stats) ==
    stats.micro + stats.minor + stats.light + stats.moderate
        + stats.strong + stats.major + stats.great

\* C6: every magnitude gets exactly one band, with half-open boundaries at
\* 1, 2, 3, 4, 5, 6 (m < 1 micro, ..., m >= 6 great; exactly 2.0 is light and
\* exactly 6.0 is great), and the label of the map and the bucket of the
\* statistics panel are that same band.
C6_BandsHalfOpenAndAgree ==
    (result.done /\ call.fn = "magnitude")
        => LET m == call.magnitude
           IN  /\ result.label \in DOMAIN BandOfLabel
               /\ BandOfLabel[result.label] = BandOf(m)
               /\ result.stats = [ZeroStats EXCEPT ![BandOf(m)] = 1]
               /\ m = 2 * MagRes => result.label = "Light"
               /\ m = 6 * MagRes => result.label = "Great"
               /\ m = 2 * MagRes - 1 => result.label = "Minor"
               /\ m = 6 * MagRes - 1 => result.label = "Major"

\* Magnitude exactly 2.0 has been classified: Light, counted under light.
C6_Witness ==
    /\ result.done
    /\ call.fn = "magnitude"
    /\ call.magnitude = 2 * MagRes
    /\ result.label = "Light"
    /\ result.stats.light = 1

\* C7: for every event collection the seven counts sum to the number of events,
\* and each band's count is the number of events whose magnitude is in the band.
C7_CountsPartitionCollection ==
    (result.done /\ call.fn = "stats")
        => LET eqs == call.earthquakes
           IN  /\ SumOfCounts(result.stats) = Len(eqs)
               /\ \A k \in DOMAIN BandNames :
                      result.stats[BandNames[k]] =
                          Cardinality({i \in DOMAIN eqs : BandOf(eqs[i].mag) = BandNames[k]})

\* A collection with two events in one band and one in another has been counted.
C7_Witness ==
    /\ result.done
    /\ call.fn = "stats"
    /\ Len(call.earthquakes) = 3
    /\ result.stats.light = 2
    /\ result.stats.great = 1

RatInRange(r) == ~RatLess(r, Rat(0, 1)) /\ ~RatLess(Rat(100, 1), r)

\* C8: for every latitude and longitude, also outside [-90, 90] and
\* [-180, 180], x and y are within [0, 100], x is (lng + 180) / 360 * 100 and y
\* is (90 - lat) / 180 * 100, each cut to that range; (90, -180) maps to (0, 0),
\* (-90, 180) to (100, 100) and (0, 0) to (50, 50).
C8_ProjectionClamped ==
    (result.done /\ call.fn = "latLng")
        => LET lat == call.lat
               lng == call.lng
               x == result.position.x
               y == result.position.y
           IN  /\ x.d > 0 /\ y.d > 0
               /\ RatInRange(x) /\ RatInRange(y)
               /\ lng <= -180 => RatEq(x, Rat(0, 1))
               /\ lng >= 180 => RatEq(x, Rat(100, 1))
               /\ (-180 <= lng /\ lng <= 180) => x.n * 360 = (lng + 180) * 100 * x.d
               /\ lat >= 90 => RatEq(y, Rat(0, 1))
               /\ lat <= -90 => RatEq(y, Rat(100, 1))
               /\ (-90 <= lat /\ lat <= 90) => y.n * 180 = (90 - lat) * 100 * y.d
               /\ (lat = 0 /\ lng = 0) => (RatEq(x, Rat(50, 1)) /\ RatEq(y, Rat(50, 1)))

\* A point outside both ranges has been projected onto the corner (100, 0).
C8_Witness ==
    /\ result.done
    /\ call.fn = "latLng"
    /\ call.lat > 90
    /\ call.lng > 180
    /\ RatEq(result.position.x, Rat(100, 1))
    /\ RatEq(result.position.y, Rat(0, 1))

\* C9: for every non-empty collection the most recent event is a member of the
\* collection, no event has a greater timestamp, and of the events with that
\* timestamp it is the first in collection order.
C9_MostRecentIsFirstMaximal ==
    (result.done /\ call.fn = "stats" /\ Len(call.earthquakes) > 0)
        => LET eqs == call.earthquakes
           IN  /\ ~result.mostRecent.threw
               /\ \E j \in DOMAIN eqs :
                      /\ result.mostRecent.value = eqs[j]
                      /\ \A i \in DOMAIN eqs : eqs[i].time <= eqs[j].time
                      /\ \A i \in 1..(j - 1) : eqs[i].time < eqs[j].time

\* The latest timestamp occurs twice, after an older event: the first of the two
\* was returned.
C9_Witness ==
    /\ result.done
    /\ call.fn = "stats"
    /\ Len(call.earthquakes) = 3
    /\ call.earthquakes[1].time = 1
    /\ call.earthquakes[2].time = 2
    /\ call.earthquakes[3].time = 2
    /\ result.mostRecent.value = call.earthquakes[2]

----------------------------------------------------------------------------
\* Colours.

\* C11: each band has one canonical colour, the one the statistics panel shows
\* for it: the marker of every magnitude m has the colour of the band of m, and
\* two magnitudes whose bands have different canonical colours never get the
\* same marker colour.
C11_MarkerColourIsBandColour ==
    (result.done /\ call.fn = "magnitude")
        => LET m == call.magnitude
           IN  /\ result.color = DistributionColor(BandOf(m))
               /\ \A n \in Magnitudes :
                      DistributionColor(BandOf(n)) # DistributionColor(BandOf(m))
                          => getMagnitudeColor(n) # result.color

\* The two bands where marker and panel agree: below 1 and from 6 up.
C11_AgreesOnOuterBands ==
    (result.done /\ call.fn = "magnitude"
         /\ (call.magnitude < 1 * MagRes \/ call.magnitude >= 6 * MagRes))
        => result.color = DistributionColor(BandOf(call.magnitude))

\* The legend of the map itself gives a label the colour the panel gives its band.
C11_MapLegendMatchesPanel ==
    \A r \in DOMAIN MapLegend :
        MapLegend[r].color = DistributionColor(BandOfLabel[MapLegend[r].label])

====
